---- MODULE Spec2Model ----
(***************************************************************************)
(* A model of the MovingAI benchmark library: the immutable grid map       *)
(* (MovingAiMap), its traversability queries (Map2D) and the two parsers   *)
(* (parse_map, parse_scen).                                                *)
(*                                                                         *)
(* A panic of the Rust code is a value of the model: every operation       *)
(* returns Ok(v) or Panic, and a panic propagates through its callers.     *)
(* Coordinates are pairs <<x, y>> of naturals (Coords2D = (usize, usize)). *)
(* Strings the code inspects character by character are sequences of       *)
(* one-character strings.                                                  *)
(***************************************************************************)
EXTENDS Integers, Sequences, FiniteSets, TLC

VARIABLES pc, args, m, last, scen_in, scen_pos, table, scen_ret

vars == <<pc, args, m, last, scen_in, scen_pos, table, scen_ret>>
map_vars == <<pc, args, m, last>>
scen_vars == <<scen_in, scen_pos, table, scen_ret>>

\* ------------------------------------------------------------------ bounds
\* Largest width and height of a map handed to the constructor.
MaxDim == 3
\* Longest cell vector handed to the constructor.
MaxCells == 4
\* Most cells of a cell vector that are not open ground (".").
MaxSpecial == 2
\* Most lines of a scenario text.
MaxLines == 2

\* ----------------------------------------------------------- result values
Ok(v) == [ok |-> TRUE, val |-> v]
Panic == [ok |-> FALSE, val |-> "panic"]

\* The tile labels the code matches on, and "x" for any unrecognised label.
Labels == {".", "G", "@", "O", "T", "S", "W", "x"}

Octile == <<"o", "c", "t", "i", "l", "e">>
Empty == <<"e", "m", "p", "t", "y">>
\* The map types used: "octile", and "empty", the default of parse_map.
MapTypes == {Octile, Empty}

NoMap == [map_type |-> <<>>, height |-> 0, width |-> 0, map |-> <<>>]
NoArgs == [map_type |-> <<>>, height |-> 0, width |-> 0, map |-> <<>>]
NoQuery == [op |-> "none", from |-> <<0, 0>>, to |-> <<0, 0>>, result |-> Ok(FALSE)]

\* ------------------------------------------------------------ MovingAiMap
\* new accepting any vector that is long enough.
New_long_enough(map_type, height, width, map) ==
    IF Len(map) < height * width
    THEN Panic
    ELSE Ok([map_type |-> map_type, height |-> height, width |-> width, map |-> map])

\* MovingAiMap::new: panics unless map.len() == height*width.
New(map_type, height, width, map) ==
    IF Len(map) # height * width
    THEN Panic
    ELSE Ok([map_type |-> map_type, height |-> height, width |-> width, map |-> map])

get_width(self) == self.width

get_height(self) == self.height

\* Vec indexing: a panic when the index is not below the length.
VecIndex(v, i) == IF i < Len(v) THEN Ok(v[i + 1]) ELSE Panic

\* get_cell with the row stride taken from the height.
get_cell_by_height(self, coords) ==
    VecIndex(self.map, coords[2] * get_height(self) + coords[1])

\* get_cell: &self.map[coords.1*self.get_width() + coords.0]
get_cell(self, coords) == VecIndex(self.map, coords[2] * get_width(self) + coords[1])

\* Index<Coords2D>::index
index(self, coords) == get_cell(self, coords)

\* is_out_of_bound comparing with > where the code has >=.
is_out_of_bound_gt(self, coords) ==
    coords[1] > self.width \/ coords[2] > self.height

is_out_of_bound(self, coords) ==
    coords[1] >= self.width \/ coords[2] >= self.height

\* `as i32` on a usize below 2^31, which every in-bounds coordinate of a
\* map of these sizes is: the value is kept.
as_i32(n) == n

abs(n) == IF n < 0 THEN -n ELSE n

\* coordinates_connect without the map type test: octile for every map.
coordinates_connect_octile(self, coordsA, coordsB) ==
    LET x1 == as_i32(coordsA[1])
        x2 == as_i32(coordsB[1])
        y1 == as_i32(coordsA[2])
        y2 == as_i32(coordsB[2])
    IN  abs(x1 - x2) <= 1 /\ abs(y1 - y2) <= 1

coordinates_connect(self, coordsA, coordsB) ==
    LET x1 == as_i32(coordsA[1])
        x2 == as_i32(coordsB[1])
        y1 == as_i32(coordsA[2])
        y2 == as_i32(coordsB[2])
    IN  IF self.map_type = Octile
        THEN abs(x1 - x2) <= 1 /\ abs(y1 - y2) <= 1
        ELSE \/ (y2 = y1 /\ (x2 = x1 + 1 \/ x2 = x1 - 1))
             \/ (x2 = x1 /\ (y2 = y1 + 1 \/ y2 = y1 - 1))

\* The match of is_traversable without the water arm.
TraversableLabel_no_water(tile_char) ==
    CASE tile_char = "." -> TRUE
      [] tile_char = "G" -> TRUE
      [] tile_char = "S" -> TRUE
      [] OTHER -> FALSE

\* The match of is_traversable on the tile's label.
TraversableLabel(tile_char) ==
    CASE tile_char = "." -> TRUE
      [] tile_char = "G" -> TRUE
      [] tile_char = "@" -> FALSE
      [] tile_char = "O" -> FALSE
      [] tile_char = "T" -> FALSE
      [] tile_char = "S" -> TRUE
      [] tile_char = "W" -> TRUE
      [] OTHER -> FALSE

is_traversable(self, tile) ==
    IF is_out_of_bound(self, tile) THEN Ok(FALSE)
    ELSE LET tile_char == get_cell(self, tile)
         IN  IF ~tile_char.ok THEN Panic
             ELSE Ok(TraversableLabel(tile_char.val))

\* The match of is_traversable_from with swamp entered from "G" as well.
TraversableFromLabels_swamp_from_G(tile_char, from_char) ==
    CASE tile_char = "." -> TRUE
      [] tile_char = "G" -> TRUE
      [] tile_char = "S" /\ from_char \in {".", "G", "S"} -> TRUE
      [] tile_char = "W" /\ from_char = "W" -> TRUE
      [] OTHER -> FALSE

\* The match of is_traversable_from on the pair the other way round,
\* (from_char, tile_char).
TraversableFromLabels_swapped(tile_char, from_char) ==
    CASE from_char = "." -> TRUE
      [] from_char = "G" -> TRUE
      [] from_char = "S" /\ tile_char \in {".", "S"} -> TRUE
      [] from_char = "W" /\ tile_char = "W" -> TRUE
      [] OTHER -> FALSE

\* The match of is_traversable_from on (tile_char, from_char).
TraversableFromLabels(tile_char, from_char) ==
    CASE tile_char = "." -> TRUE
      [] tile_char = "G" -> TRUE
      [] tile_char = "@" -> FALSE
      [] tile_char = "O" -> FALSE
      [] tile_char = "T" -> FALSE
      [] tile_char = "S" /\ from_char = "." -> TRUE
      [] tile_char = "S" /\ from_char = "S" -> TRUE
      [] tile_char = "W" /\ from_char = "W" -> TRUE
      [] OTHER -> FALSE

\* is_traversable_from without the bounds check of `from`.
is_traversable_from_unchecked_from(self, from, to) ==
    IF is_out_of_bound(self, to) THEN Ok(FALSE)
    ELSE IF ~coordinates_connect(self, to, from) THEN Ok(FALSE)
    ELSE LET tile_char == get_cell(self, to)
             from_char == get_cell(self, from)
         IN  IF ~tile_char.ok \/ ~from_char.ok THEN Panic
             ELSE Ok(TraversableFromLabels(tile_char.val, from_char.val))

is_traversable_from(self, from, to) ==
    IF is_out_of_bound(self, to) THEN Ok(FALSE)
    ELSE IF is_out_of_bound(self, from) THEN Ok(FALSE)
    ELSE IF ~coordinates_connect(self, to, from) THEN Ok(FALSE)
    ELSE LET tile_char == get_cell(self, to)
             from_char == get_cell(self, from)
         IN  IF ~tile_char.ok \/ ~from_char.ok THEN Panic
             ELSE Ok(TraversableFromLabels(tile_char.val, from_char.val))

\* The eight geometric neighbours of a tile as offsets, in the order they
\* are tried.
NeighborOffsets ==
    << <<0, -1>>, <<1, -1>>, <<1, 0>>, <<1, 1>>,
       <<0, 1>>, <<-1, 1>>, <<-1, 0>>, <<-1, -1>> >>

\* The candidates of neighbors(tile): the geometric neighbours that need no
\* subtraction below zero on either axis.
Candidates(tile) ==
    LET all == [i \in 1..Len(NeighborOffsets) |->
                   <<tile[1] + NeighborOffsets[i][1], tile[2] + NeighborOffsets[i][2]>>]
    IN  SelectSeq(all, LAMBDA c : c[1] >= 0 /\ c[2] >= 0)

\* neighbors(tile): the candidates is_traversable_from(tile, candidate)
\* accepts, in the order tried.
neighbors(self, tile) ==
    LET cand == Candidates(tile)
    IN  IF \E i \in 1..Len(cand) : ~is_traversable_from(self, tile, cand[i]).ok
        THEN Panic
        ELSE Ok(SelectSeq(cand, LAMBDA c : is_traversable_from(self, tile, c).val))

\* The coordinates of the rows y, y+1, ... of the map, each row from x = 0.
RECURSIVE CoordsFromRow(_, _)
CoordsFromRow(self, y) ==
    IF y >= self.height THEN <<>>
    ELSE [i \in 1..self.width |-> <<i - 1, y>>] \o CoordsFromRow(self, y + 1)

\* coords(): every coordinate of the map, y outer and x inner, from (0,0);
\* each call builds the sequence anew from the map alone.
coords(self) == CoordsFromRow(self, 0)

\* ---------------------------------------------------------------- strings
Str_type == <<"t", "y", "p", "e">>
Str_height == <<"h", "e", "i", "g", "h", "t">>
Str_width == <<"w", "i", "d", "t", "h">>
Str_map == <<"m", "a", "p">>

DigitChars == <<"0", "1", "2", "3", "4", "5", "6", "7", "8", "9">>

IsDigit(c) == \E d \in 1..10 : DigitChars[d] = c

DigitValue(c) == (CHOOSE d \in 1..10 : DigitChars[d] = c) - 1

\* char::is_whitespace on the characters used here.
IsWhitespace(c) == c \in {" ", "\t"}

\* str::split(sep): the pieces between the separators; one empty piece for
\* an empty string.
RECURSIVE Split(_, _)
Split(s, sep) ==
    IF \A i \in 1..Len(s) : s[i] # sep
    THEN <<s>>
    ELSE LET i == CHOOSE j \in 1..Len(s) : s[j] = sep /\ \A k \in 1..(j - 1) : s[k] # sep
         IN  <<SubSeq(s, 1, i - 1)>> \o Split(SubSeq(s, i + 1, Len(s)), sep)

\* str::trim(): leading and trailing whitespace removed.
RECURSIVE Trim(_)
Trim(s) ==
    IF s = <<>> THEN s
    ELSE IF IsWhitespace(s[1]) THEN Trim(Tail(s))
    ELSE IF IsWhitespace(s[Len(s)]) THEN Trim(SubSeq(s, 1, Len(s) - 1))
    ELSE s

RECURSIVE DecimalValue(_)
DecimalValue(s) ==
    IF s = <<>> THEN 0
    ELSE 10 * DecimalValue(SubSeq(s, 1, Len(s) - 1)) + DigitValue(s[Len(s)])

\* str::parse::<usize>() followed by expect: an optional "+" and one or
\* more decimal digits give the number; anything else panics.
ParseUsize(s) ==
    LET digits == IF s # <<>> /\ s[1] = "+" THEN Tail(s) ELSE s
    IN  IF digits # <<>> /\ \A i \in 1..Len(digits) : IsDigit(digits[i])
        THEN Ok(DecimalValue(digits))
        ELSE Panic

\* ---------------------------------------------------------------- parse_map
\* The locals of parse_map before its loop.
ParseMapStart ==
    [ok |-> TRUE, height |-> 0, width |-> 0, map_type |-> Empty, map |-> <<>>,
     parse_map |-> FALSE]

\* One pass of the loop of parse_map over a line.
ParseMapLine(st, line) ==
    IF ~st.ok THEN st
    ELSE IF st.parse_map THEN [st EXCEPT !.map = st.map \o line]
    ELSE IF Trim(line) = Str_map THEN [st EXCEPT !.parse_map = TRUE]
    ELSE LET param == Split(line, " ")
         IN  IF Len(param) # 2 THEN st
             ELSE LET key == param[1]
                      value == param[2]
                  IN  IF key = Str_type THEN [st EXCEPT !.map_type = value]
                      ELSE IF key = Str_height
                      THEN LET n == ParseUsize(value)
                           IN  IF n.ok THEN [st EXCEPT !.height = n.val]
                               ELSE [st EXCEPT !.ok = FALSE]
                      ELSE IF key = Str_width
                      THEN LET n == ParseUsize(value)
                           IN  IF n.ok THEN [st EXCEPT !.width = n.val]
                               ELSE [st EXCEPT !.ok = FALSE]
                      ELSE st

RECURSIVE ParseMapLoop(_, _, _)
ParseMapLoop(st, lines, i) ==
    IF i > Len(lines) THEN st
    ELSE ParseMapLoop(ParseMapLine(st, lines[i]), lines, i + 1)

\* parse_map: Ok(MovingAiMap::new(map_type, height, width, map)), or the
\* panic of a header that does not parse or of new.
parse_map(contents) ==
    LET st == ParseMapLoop(ParseMapStart, contents, 1)
    IN  IF ~st.ok THEN Panic
        ELSE New(st.map_type, st.height, st.width, st.map)

\* --------------------------------------------------------------- parse_scen
Str_version == <<"v", "e", "r", "s", "i", "o", "n">>

\* str::starts_with
StartsWith(s, prefix) ==
    Len(s) >= Len(prefix) /\ SubSeq(s, 1, Len(prefix)) = prefix

\* str::parse::<u32>() followed by expect; the numbers used here are far
\* below 2^32, where it differs from parse::<usize>().
ParseU32(s) == ParseUsize(s)

\* str::parse::<f64>() followed by expect, on decimal numerals: an optional
\* sign, digits, and an optional "." with digits, at least one digit in
\* all. The value is kept as its numeral.
ParseF64(s) ==
    LET unsigned == IF s # <<>> /\ s[1] \in {"+", "-"} THEN Tail(s) ELSE s
        parts == Split(unsigned, ".")
        AllDigits(t) == \A i \in 1..Len(t) : IsDigit(t[i])
    IN  IF /\ Len(parts) <= 2
           /\ \A k \in 1..Len(parts) : AllDigits(parts[k])
           /\ \E k \in 1..Len(parts) : parts[k] # <<>>
        THEN Ok(s)
        ELSE Panic

\* The SceneRecord built from the fields of a line: each record[i] panics
\* when the line has no such field, each parse when the field is no number.
SceneRecordOf(record) ==
    LET f == [i \in 0..8 |-> VecIndex(record, i)]
        bucket == IF f[0].ok THEN ParseU32(f[0].val) ELSE Panic
        map_width == IF f[2].ok THEN ParseUsize(f[2].val) ELSE Panic
        map_height == IF f[3].ok THEN ParseUsize(f[3].val) ELSE Panic
        start_x == IF f[4].ok THEN ParseUsize(f[4].val) ELSE Panic
        start_y == IF f[5].ok THEN ParseUsize(f[5].val) ELSE Panic
        goal_x == IF f[6].ok THEN ParseUsize(f[6].val) ELSE Panic
        goal_y == IF f[7].ok THEN ParseUsize(f[7].val) ELSE Panic
        optimal_length == IF f[8].ok THEN ParseF64(f[8].val) ELSE Panic
    IN  IF /\ bucket.ok /\ f[1].ok /\ map_width.ok /\ map_height.ok
           /\ start_x.ok /\ start_y.ok /\ goal_x.ok /\ goal_y.ok
           /\ optimal_length.ok
        THEN Ok([bucket |-> bucket.val, map_file |-> f[1].val,
                 map_width |-> map_width.val, map_height |-> map_height.val,
                 start_pos |-> <<start_x.val, start_y.val>>,
                 goal_pos |-> <<goal_x.val, goal_y.val>>,
                 optimal_length |-> optimal_length.val])
        ELSE Panic

\* One pass of the loop of parse_scen over a line: "skip" for a version
\* line or an empty line, else the record pushed or the panic.
ParseScenLine(line) ==
    IF StartsWith(line, Str_version) THEN [kind |-> "skip", rec |-> Panic]
    ELSE IF line = <<>> THEN [kind |-> "skip", rec |-> Panic]
    ELSE [kind |-> "record", rec |-> SceneRecordOf(Split(line, "\t"))]

\* ----------------------------------------------------------------- inputs
Dims == 0..MaxDim

\* The cell vectors of n labels, at most MaxSpecial of them not ".".
CellVecs(n) ==
    {cells \in [1..n -> Labels] :
        Cardinality({i \in 1..n : cells[i] # "."}) <= MaxSpecial}

\* The lengths of the cell vectors a caller hands to MovingAiMap::new with
\* dimensions height and width: height*width, one less and one more, up to
\* MaxCells.
CellLens(height, width) ==
    {n \in 0..MaxCells : n - height * width \in {-1, 0, 1}}

\* The decimal numeral of n.
RECURSIVE Digits(_)
Digits(n) == IF n < 10 THEN <<DigitChars[n + 1]>> ELSE Digits(n \div 10) \o <<DigitChars[(n % 10) + 1]>>

\* The rows of a map text: the cells in lines of `width` characters (all in
\* one line when width is 0).
RECURSIVE Rows(_, _)
Rows(cells, width) ==
    IF cells = <<>> THEN <<>>
    ELSE IF width = 0 \/ Len(cells) <= width THEN <<cells>>
    ELSE <<SubSeq(cells, 1, width)>> \o Rows(SubSeq(cells, width + 1, Len(cells)), width)

\* A map text as its lines: an optional type line, the height and width
\* lines, the map line and the rows.
MapText(typeLines, heightTok, widthTok, cells, width) ==
    typeLines
    \o << Str_height \o <<" ">> \o heightTok, Str_width \o <<" ">> \o widthTok, Str_map >>
    \o Rows(cells, width)

\* The type lines of a map text: none, or one naming a map type.
TypeLines == {<<>>} \cup {<< Str_type \o <<" ">> \o t >> : t \in MapTypes}

\* The height and width as written in a header: their numerals, and for
\* the all-open maps also a word that is no numeral in place of either.
HeaderToks(height, width, cells) ==
    IF \A i \in 1..Len(cells) : cells[i] = "."
    THEN {Digits(height), <<"x">>} \X {Digits(width), <<"x">>}
    ELSE {<<Digits(height), Digits(width)>>}

RECURSIVE JoinFields(_)
JoinFields(fields) ==
    IF Len(fields) = 0 THEN <<>>
    ELSE IF Len(fields) = 1 THEN fields[1]
    ELSE fields[1] \o <<"\t">> \o JoinFields(Tail(fields))

\* The fields of a well-formed scenario line.
GoodFields ==
    << <<"0">>, <<"a">>, <<"4", "9">>, <<"4", "9">>, <<"1">>, <<"1", "1">>,
       <<"1">>, <<"1", "2">>, <<"1", ".", "5">> >>

\* The lines of a scenario text: the version line, an empty line, the
\* well-formed line cut after k fields or with one more field, and the
\* well-formed line with one field replaced by a word.
ScenLines ==
    {Str_version \o <<" ", "1">>, <<>>}
    \cup {JoinFields(SubSeq(GoodFields, 1, k)) : k \in 1..Len(GoodFields)}
    \cup {JoinFields(Append(GoodFields, <<"7">>))}
    \cup {JoinFields([GoodFields EXCEPT ![k] = <<"x">>]) : k \in 1..Len(GoodFields)}

ScenTexts == UNION {[1..n -> ScenLines] : n \in 0..MaxLines}

\* The coordinates a caller queries: the map's tiles and one column and one
\* row past them.
QueryCoords(self) == (0..self.width) \X (0..self.height)

\* ---------------------------------------------------------------- actions
\* A caller constructs a map from its components.
CallNew ==
    /\ pc = "start"
    /\ \E t \in MapTypes, h \in Dims, w \in Dims :
          /\ h * w <= MaxCells
          /\ \E n \in CellLens(h, w) : \E cells \in CellVecs(n) :
                LET r == New(t, h, w, cells)
                IN  /\ args' = [map_type |-> t, height |-> h, width |-> w, map |-> cells]
                    /\ pc' = IF r.ok THEN "built" ELSE "panicked"
                    /\ m' = IF r.ok THEN r.val ELSE NoMap
    /\ UNCHANGED <<last, scen_vars>>

\* A caller holding the map calls one of its methods: the call and what it
\* returned are recorded; a panic ends the caller.
Query(op, from, to, r) ==
    /\ pc = "built"
    /\ last.op = "none"
    /\ last' = [op |-> op, from |-> from, to |-> to, result |-> r]
    /\ pc' = IF r.ok THEN "built" ELSE "panicked"
    /\ UNCHANGED <<args, m, scen_vars>>

\* The caller drops the returned value; the map is unchanged and can be
\* queried again.
Return ==
    /\ pc = "built"
    /\ last.op # "none"
    /\ last' = NoQuery
    /\ UNCHANGED <<pc, args, m, scen_vars>>

CallGetCell ==
    \E c \in QueryCoords(m) : Query("get_cell", c, c, get_cell(m, c))

\* map[coords]
CallIndex ==
    \E c \in QueryCoords(m) : Query("index", c, c, index(m, c))

CallIsOutOfBound ==
    \E c \in QueryCoords(m) : Query("is_out_of_bound", c, c, Ok(is_out_of_bound(m, c)))

CallIsTraversable ==
    \E c \in QueryCoords(m) : Query("is_traversable", c, c, is_traversable(m, c))

CallIsTraversableFrom ==
    \E from \in QueryCoords(m), to \in QueryCoords(m) :
          Query("is_traversable_from", from, to, is_traversable_from(m, from, to))

\* neighbors is called on the tiles of the map.
CallNeighbors ==
    \E c \in QueryCoords(m) : Query("neighbors", c, c, neighbors(m, c))

\* coords() is called and run to its end.
CallCoords ==
    Query("coords", <<0, 0>>, <<0, 0>>, Ok(coords(m)))

\* A caller parses a map text.
CallParseMap ==
    /\ pc = "start"
    /\ \E typeLines \in TypeLines, h \in Dims, w \in Dims :
          /\ h * w <= MaxCells
          /\ \E n \in CellLens(h, w) : \E cells \in CellVecs(n) :
             \E toks \in HeaderToks(h, w, cells) :
                LET contents == MapText(typeLines, toks[1], toks[2], cells, w)
                    st == ParseMapLoop(ParseMapStart, contents, 1)
                    r == parse_map(contents)
                IN  /\ args' = IF st.ok
                               THEN [map_type |-> st.map_type, height |-> st.height,
                                     width |-> st.width, map |-> st.map]
                               ELSE NoArgs
                    /\ pc' = IF r.ok THEN "built" ELSE "panicked"
                    /\ m' = IF r.ok THEN r.val ELSE NoMap
    /\ UNCHANGED <<last, scen_vars>>

\* ------------------------------------------------------- parse_scen, by line
\* parse_scen is called on a text: the table is empty.
ScenCall ==
    /\ scen_ret = "idle"
    /\ \E text \in ScenTexts :
          /\ scen_in' = text
          /\ scen_pos' = 1
          /\ table' = <<>>
          /\ scen_ret' = "running"
    /\ UNCHANGED map_vars

\* The loop of parse_scen takes the next line.
ScenLine ==
    /\ scen_ret = "running"
    /\ scen_pos <= Len(scen_in)
    /\ LET r == ParseScenLine(scen_in[scen_pos])
       IN  IF r.kind = "skip"
           THEN /\ scen_pos' = scen_pos + 1
                /\ UNCHANGED <<table, scen_ret>>
           ELSE IF r.rec.ok
           THEN /\ table' = Append(table, r.rec.val)
                /\ scen_pos' = scen_pos + 1
                /\ UNCHANGED scen_ret
           ELSE /\ scen_ret' = "panic"
                /\ UNCHANGED <<table, scen_pos>>
    /\ UNCHANGED <<scen_in, map_vars>>

\* The loop is over: parse_scen returns Ok(table).
ScenReturn ==
    /\ scen_ret = "running"
    /\ scen_pos > Len(scen_in)
    /\ scen_ret' = "Ok"
    /\ UNCHANGED <<scen_in, scen_pos, table, map_vars>>

MapInit ==
    /\ pc = "start"
    /\ args = NoArgs
    /\ m = NoMap
    /\ last = NoQuery

ScenIdle ==
    /\ scen_in = <<>>
    /\ scen_pos = 0
    /\ table = <<>>
    /\ scen_ret = "idle"

Init == MapInit /\ ScenIdle

Next ==
    \/ CallNew
    \/ CallParseMap
    \/ CallGetCell
    \/ CallIndex
    \/ CallIsOutOfBound
    \/ CallIsTraversable
    \/ CallIsTraversableFrom
    \/ CallNeighbors
    \/ CallCoords
    \/ Return

Spec == Init /\ [][Next]_vars

\* coordinates_connect, which is private, applied by itself: the maps are
\* the all-open maps of every size, of the map types and of two more that
\* differ from "octile" in one character.
ConnectTypes == MapTypes \cup {<<"O", "c", "t", "i", "l", "e">>, <<"o", "c", "t", "i", "l", "e", "s">>}

ConnectInit ==
    /\ ScenIdle
    /\ pc = "built"
    /\ last = NoQuery
    /\ \E t \in ConnectTypes, h \in Dims, w \in Dims :
          /\ h * w <= MaxCells
          /\ args = [map_type |-> t, height |-> h, width |-> w, map |-> [i \in 1..(h * w) |-> "."]]
          /\ m = New(t, h, w, [i \in 1..(h * w) |-> "."]).val

CallCoordinatesConnect ==
    \E a \in QueryCoords(m), b \in QueryCoords(m) :
        Query("coordinates_connect", a, b, Ok(coordinates_connect(m, a, b)))

ConnectNext ==
    \/ CallCoordinatesConnect
    \/ Return

ConnectSpec == ConnectInit /\ [][ConnectNext]_vars

ScenNext ==
    \/ ScenCall
    \/ ScenLine
    \/ ScenReturn

ScenSpec == Init /\ [][ScenNext]_vars

\* ------------------------------------------------ vocabulary of the claims
\* The tile is on the map: x < width and y < height.
InBounds(c) == c[1] < m.width /\ c[2] < m.height

\* The label stored at row-major index y*width + x.
LabelAt(c) == m.map[c[2] * m.width + c[1] + 1]

DX(a, b) == abs(a[1] - b[1])

DY(a, b) == abs(a[2] - b[2])

IsDiagonal(a, b) == a[1] # b[1] /\ a[2] # b[2]

IsOctile == m.map_type = Octile

\* Adjacency under the map's topology, as the specification words it.
Adjacent(a, b) ==
    IF IsOctile
    THEN DX(a, b) <= 1 /\ DY(a, b) <= 1
    ELSE (DX(a, b) = 1 /\ DY(a, b) = 0) \/ (DX(a, b) = 0 /\ DY(a, b) = 1)

\* The terrain table keyed by (label(to), label(from)).
TerrainTable(toLabel, fromLabel) ==
    \/ toLabel \in {".", "G"}
    \/ toLabel = "S" /\ fromLabel \in {".", "S"}
    \/ toLabel = "W" /\ fromLabel = "W"

\* is_traversable_from has returned, from a call on two adjacent tiles of
\* the map.
SteppedAdjacent ==
    /\ last.op = "is_traversable_from"
    /\ InBounds(last.from) /\ InBounds(last.to)
    /\ Adjacent(last.from, last.to)

\* C1: on in-bounds adjacent tiles, when the step is not diagonal or the
\* map is not octile, is_traversable_from(from, to) is the terrain table at
\* (label(to), label(from)).
C1_TerrainTable ==
    (SteppedAdjacent /\ (~IsDiagonal(last.from, last.to) \/ ~IsOctile))
        => last.result = Ok(TerrainTable(LabelAt(last.to), LabelAt(last.from)))

\* A step from swamp to the swamp next to it was found legal.
C1_Witness ==
    /\ SteppedAdjacent
    /\ ~IsDiagonal(last.from, last.to)
    /\ last.from # last.to
    /\ LabelAt(last.to) = "S" /\ LabelAt(last.from) = "S"
    /\ last.result = Ok(TRUE)

\* C2: on an octile map a diagonal step from (x,y) to (p,q) is legal only
\* if the four orthogonal sub-steps from->(x,q), (x,q)->to, from->(p,y) and
\* (p,y)->to are legal.
C2_CornerCutting ==
    (/\ last.op = "is_traversable_from"
     /\ IsOctile
     /\ IsDiagonal(last.from, last.to)
     /\ last.result = Ok(TRUE))
        => LET xq == <<last.from[1], last.to[2]>>
               py == <<last.to[1], last.from[2]>>
           IN  /\ is_traversable_from(m, last.from, xq) = Ok(TRUE)
               /\ is_traversable_from(m, xq, last.to) = Ok(TRUE)
               /\ is_traversable_from(m, last.from, py) = Ok(TRUE)
               /\ is_traversable_from(m, py, last.to) = Ok(TRUE)

\* C3: is_traversable_from returns a boolean for every pair of coordinates,
\* without a panic, and false when from is out of bounds, to is out of
\* bounds or the two are not adjacent under the map's topology.
C3_TotalAndFalseOutside ==
    last.op = "is_traversable_from"
        => /\ pc = "built"
           /\ last.result.ok
           /\ last.result.val \in BOOLEAN
           /\ (~InBounds(last.from) \/ ~InBounds(last.to) \/ ~Adjacent(last.from, last.to))
                 => last.result = Ok(FALSE)

\* A step from the column past the map onto the open tile next to it was
\* refused.
C3_Witness ==
    /\ last.op = "is_traversable_from"
    /\ ~InBounds(last.from)
    /\ InBounds(last.to)
    /\ Adjacent(last.from, last.to)
    /\ LabelAt(last.to) = "."
    /\ last.result = Ok(FALSE)

\* C4: is_traversable(tile) is false out of bounds, and else true exactly
\* for the labels ".", "G", "S" and "W"; it never panics.
C4_IsTraversable ==
    last.op = "is_traversable"
        => /\ pc = "built"
           /\ last.result =
                 Ok(InBounds(last.from) /\ LabelAt(last.from) \in {".", "G", "S", "W"})

\* A water tile was found traversable.
C4_Witness ==
    /\ last.op = "is_traversable"
    /\ InBounds(last.from)
    /\ LabelAt(last.from) = "W"
    /\ last.result = Ok(TRUE)

\* C5: get_cell(coord) and map[coord] fail for every coordinate with
\* x >= width or y >= height, and return the label at y*width + x for every
\* other one.
C5_GetCellChecksBounds ==
    last.op \in {"get_cell", "index"}
        => IF InBounds(last.from)
           THEN last.result = Ok(LabelAt(last.from))
           ELSE ~last.result.ok

\* C6: new fails when cells.len() # width*height and yields no map then;
\* every map observed after construction, from new or from parse_map, has
\* width*height cells, the ones supplied.
C6_DimensionCheck ==
    /\ pc = "built" => (Len(m.map) = m.width * m.height /\ m = args)
    /\ (args # NoArgs /\ Len(args.map) # args.width * args.height)
          => (pc = "panicked" /\ m = NoMap)

\* A cell vector one longer than width*height was refused.
C6_Witness ==
    /\ args # NoArgs
    /\ args.width > 0 /\ args.height > 0
    /\ Len(args.map) = args.width * args.height + 1
    /\ pc = "panicked"
    /\ m = NoMap

\* C7: two coordinates connect, on a map whose type is exactly "octile",
\* iff both axes differ by at most 1; on any other map iff one axis differs
\* by exactly 1 and the other is equal.
C7_CoordinatesConnect ==
    last.op = "coordinates_connect"
        => last.result =
              Ok(IF m.map_type = Octile
                 THEN DX(last.from, last.to) <= 1 /\ DY(last.from, last.to) <= 1
                 ELSE DX(last.from, last.to) + DY(last.from, last.to) = 1)

\* On a map whose type differs from "octile" in its first letter only, a
\* diagonal pair was found not to connect.
C7_Witness ==
    /\ last.op = "coordinates_connect"
    /\ m.map_type = <<"O", "c", "t", "i", "l", "e">>
    /\ DX(last.from, last.to) = 1 /\ DY(last.from, last.to) = 1
    /\ last.result = Ok(FALSE)

\* The set of the elements of a sequence.
Range(seq) == {seq[i] : i \in 1..Len(seq)}

\* The up-to-8 geometric neighbours of a tile with no axis below zero.
GeometricNeighbours(tile) ==
    {c \in ((tile[1] - 1)..(tile[1] + 1)) \X ((tile[2] - 1)..(tile[2] + 1)) :
        c # tile /\ c[1] >= 0 /\ c[2] >= 0}

\* C8: for an in-bounds tile, neighbors(tile) does not panic and returns
\* exactly the geometric neighbours c with no axis below zero for which
\* is_traversable_from(tile, c) is true, with no duplicates, without the
\* tile itself and without out-of-bounds coordinates.
C8_Neighbors ==
    (last.op = "neighbors" /\ InBounds(last.from))
        => /\ pc = "built"
           /\ last.result.ok
           /\ Range(last.result.val) =
                 {c \in GeometricNeighbours(last.from) :
                     is_traversable_from(m, last.from, c) = Ok(TRUE)}
           /\ Cardinality(Range(last.result.val)) = Len(last.result.val)
           /\ last.from \notin Range(last.result.val)
           /\ \A c \in Range(last.result.val) : InBounds(c)

\* On an octile map, neighbors of the corner tile (width-1, height-1)
\* returned its three neighbours, one of them diagonal.
C8_Witness ==
    /\ last.op = "neighbors"
    /\ IsOctile
    /\ m.width >= 2 /\ m.height >= 2
    /\ last.from = <<m.width - 1, m.height - 1>>
    /\ last.result.ok
    /\ Len(last.result.val) = 3

\* The step of the last call is from a tile labelled f to an adjacent tile
\* labelled t.
StepBetween(f, t) ==
    /\ SteppedAdjacent
    /\ last.from # last.to
    /\ LabelAt(last.from) = f
    /\ LabelAt(last.to) = t

\* C9 as stated: a step from water to ground is illegal, a step from
\* ground to swamp is legal, and a step between swamp and water is illegal
\* in both directions.
C9_AsStated ==
    /\ StepBetween("W", ".") => last.result = Ok(FALSE)
    /\ StepBetween(".", "S") => last.result = Ok(TRUE)
    /\ StepBetween("S", "W") => last.result = Ok(FALSE)
    /\ StepBetween("W", "S") => last.result = Ok(FALSE)

\* C9 as amended: a step from water to ground is legal and the step back,
\* from ground to water, is illegal; a step from ground to swamp is legal;
\* a step between swamp and water is illegal in both directions.
C9_Amended ==
    /\ StepBetween("W", ".") => last.result = Ok(TRUE)
    /\ StepBetween(".", "W") => last.result = Ok(FALSE)
    /\ StepBetween(".", "S") => last.result = Ok(TRUE)
    /\ StepBetween("S", "W") => last.result = Ok(FALSE)
    /\ StepBetween("W", "S") => last.result = Ok(FALSE)

\* A step from water onto the open ground next to it was found legal.
C9_Witness ==
    /\ StepBetween("W", ".")
    /\ last.result = Ok(TRUE)

\* The text has a non-empty line that does not start with "version" and has
\* fewer than 9 tab-separated fields.
HasShortLine(text) ==
    \E i \in 1..Len(text) :
        /\ text[i] # <<>>
        /\ ~StartsWith(text[i], Str_version)
        /\ Len(Split(text[i], "\t")) < 9

\* C10: parse_scen returns Err, and neither panics nor returns Ok, on a
\* text with a non-empty line that does not start with "version" and has
\* fewer than 9 tab-separated fields.
C10_ShortLineIsErr ==
    (scen_ret \in {"Ok", "Err", "panic"} /\ HasShortLine(scen_in))
        => scen_ret = "Err"

\* C11: coords() yields every coordinate (x,y) with x < width and
\* y < height exactly once, in row-major order from (0,0), width*height
\* items in all; none of them is out of bound and cell access on the k-th
\* returns a label, the k-th of the map.
C11_Coords ==
    last.op = "coords"
        => LET s == last.result.val
           IN  /\ last.result.ok
               /\ Len(s) = m.width * m.height
               /\ \A k \in 1..Len(s) :
                     /\ s[k] = <<(k - 1) % m.width, (k - 1) \div m.width>>
                     /\ ~is_out_of_bound(m, s[k])
                     /\ get_cell(m, s[k]) = Ok(m.map[k])
                     /\ index(m, s[k]).val \in Labels
               /\ Range(s) = {c \in (0..MaxDim) \X (0..MaxDim) : InBounds(c)}
               /\ Cardinality(Range(s)) = Len(s)

\* coords() on a map of two rows of two tiles yielded four coordinates, the
\* third of them (0,1).
C11_Witness ==
    /\ last.op = "coords"
    /\ m.width = 2 /\ m.height = 2
    /\ Len(last.result.val) = 4
    /\ last.result.val[3] = <<0, 1>>

C13_LegalStepEndsOnEnterable ==
    (last.op = "is_traversable_from" /\ last.result = Ok(TRUE))
        => /\ is_traversable(m, last.to) = Ok(TRUE)
           /\ InBounds(last.to)
           /\ LabelAt(last.to) \in {".", "G", "S", "W"}

\* A step from water onto the water next to it was found legal.
C13_Witness ==
    /\ StepBetween("W", "W")
    /\ last.result = Ok(TRUE)

\* C14: on an octile map is_traversable_from(a, a) equals is_traversable(a)
\* for every coordinate a; on a map of any other topology it is false.
C14_SelfStep ==
    (last.op = "is_traversable_from" /\ last.from = last.to)
        => last.result = IF IsOctile THEN is_traversable(m, last.from)
                         ELSE Ok(FALSE)

\* On an octile map a step from a swamp tile onto itself was found legal.
C14_Witness ==
    /\ last.op = "is_traversable_from"
    /\ last.from = last.to
    /\ IsOctile
    /\ InBounds(last.from)
    /\ LabelAt(last.from) = "S"
    /\ last.result = Ok(TRUE)

====
